---- MODULE Spec2Model ----
(***************************************************************************)
(* Model of the Music45 lyrics service (src/src/services/lyrics.ts) and    *)
(* of the quality-tiered URL selection (src/src/utils/helpers.ts).         *)
(*                                                                         *)
(* Strings are sequences of one-character strings.  String indices of the  *)
(* operators are 1-based (TLA+ sequences); lastIndex keeps the 0-based     *)
(* value of the JavaScript RegExp object, so a scan that starts at         *)
(* lastIndex starts at sequence position lastIndex + 1.                    *)
(*                                                                         *)
(* Times are fixed-point numbers: an integer count of 10^-MaxFracDigits    *)
(* seconds.  Fraction digits beyond MaxFracDigits are dropped; the inputs  *)
(* of the model never carry more than MaxFracDigits of them.               *)
(***************************************************************************)
EXTENDS Integers, Sequences, FiniteSets, TLC

VARIABLES lastIndex, pc, fn, arg, result, store, state, pending, audio,
          net, dom, hist

vars == <<lastIndex, pc, fn, arg, result, store, state, pending, audio,
          net, dom, hist>>

\* ------------------------------------------------------------------ bounds
MaxFrags == 3
MaxFracDigits == 3
MaxLines == 3
MaxTime == 3
MaxCands == 2
MaxWindow == 2
MaxSongs == 14
MaxTracks == 2
MaxPending == 2
MaxTimeout == 3
MaxRequests == 2
MaxClock == MaxTimeout + 1

\* ------------------------------------------------------- string primitives
Digits == {"0", "1", "2", "3", "4", "5", "6", "7", "8", "9"}

IsDigit(c) == c \in Digits

DigitVal(c) ==
  CASE c = "0" -> 0 [] c = "1" -> 1 [] c = "2" -> 2 [] c = "3" -> 3
    [] c = "4" -> 4 [] c = "5" -> 5 [] c = "6" -> 6 [] c = "7" -> 7
    [] c = "8" -> 8 [] c = "9" -> 9

\* the character at position i, or "" past either end
At(s, i) == IF i >= 1 /\ i <= Len(s) THEN s[i] ELSE ""

RECURSIVE Pow10(_)
Pow10(n) == IF n <= 0 THEN 1 ELSE 10 * Pow10(n - 1)

TimeScale == Pow10(MaxFracDigits)

\* s[i..j] (empty when j < i)
Slice(s, i, j) == IF j < i THEN <<>> ELSE SubSeq(s, i, j)

\* does s carry the characters of key at position i
HasAt(s, i, key) == \A k \in 1..Len(key) : At(s, i + k - 1) = key[k]

\* String.prototype.trim
WhiteSpace == {" ", "\t", "\r", "\n"}

Trim(s) ==
  LET keep == {i \in 1..Len(s) : s[i] \notin WhiteSpace}
  IN  IF keep = {} THEN <<>>
      ELSE LET lo == CHOOSE i \in keep : \A j \in keep : i <= j
               hi == CHOOSE i \in keep : \A j \in keep : i >= j
           IN  SubSeq(s, lo, hi)

\* String.prototype.split('\n')
RECURSIVE SplitLines(_)
SplitLines(s) ==
  LET nl == {i \in 1..Len(s) : s[i] = "\n"}
  IN  IF nl = {} THEN <<s>>
      ELSE LET i == CHOOSE k \in nl : \A j \in nl : k <= j
           IN  <<Slice(s, 1, i - 1)>> \o SplitLines(Slice(s, i + 1, Len(s)))

\* ------------------------------------------------- LRC_TIMESTAMP_REGEX
\* number of consecutive digits of s that start at position k
RECURSIVE DigitRun(_, _)
DigitRun(s, k) == IF IsDigit(At(s, k)) THEN 1 + DigitRun(s, k + 1) ELSE 0

\* /\[(\d{1,2}):(\d{2}(?:\.\d+)?)\]/ anchored at position i: the position
\* just after the match, or 0 when there is no match at i
MinuteDigits(s, i) ==
  IF IsDigit(At(s, i + 1)) /\ At(s, i + 2) = ":" THEN 1
  ELSE IF IsDigit(At(s, i + 1)) /\ IsDigit(At(s, i + 2)) /\ At(s, i + 3) = ":"
       THEN 2 ELSE 0

TimestampEnd(s, i) ==
  LET n == MinuteDigits(s, i)
      j == i + n + 2          \* first digit of the seconds
      k == j + 2              \* first character after the two digits
      f == DigitRun(s, k + 1) \* digits of the fraction
  IN  IF At(s, i) # "[" \/ n = 0 THEN 0
      ELSE IF ~(IsDigit(At(s, j)) /\ IsDigit(At(s, j + 1))) THEN 0
      ELSE IF At(s, k) = "." /\ f >= 1 /\ At(s, k + 1 + f) = "]" THEN k + f + 2
      ELSE IF At(s, k) = "]" THEN k + 1
      ELSE 0

\* leftmost position >= from at which the pattern matches, or 0
RECURSIVE NextTimestamp(_, _)
NextTimestamp(s, from) ==
  IF from > Len(s) THEN 0
  ELSE IF TimestampEnd(s, from) # 0 THEN from
  ELSE NextTimestamp(s, from + 1)

\* parseInt(match[1], 10)
RECURSIVE ParseInt(_)
ParseInt(ds) ==
  IF ds = <<>> THEN 0
  ELSE 10 * ParseInt(SubSeq(ds, 1, Len(ds) - 1)) + DigitVal(ds[Len(ds)])

\* the fraction digits ds as a count of 1/TimeScale
RECURSIVE FracVal(_, _)
FracVal(ds, k) ==
  IF ds = <<>> \/ k > MaxFracDigits THEN 0
  ELSE DigitVal(Head(ds)) * Pow10(MaxFracDigits - k) + FracVal(Tail(ds), k + 1)

\* parseFloat(match[2])
ParseSeconds(s, j, e) ==
  ParseInt(Slice(s, j, j + 1)) * TimeScale + FracVal(Slice(s, j + 3, e - 2), 1)

\* minutes * 60 + seconds of the match at position i that ends before e
MatchTime(s, i, e) ==
  LET n == MinuteDigits(s, i)
  IN  ParseInt(Slice(s, i + 1, i + n)) * 60 * TimeScale
        + ParseSeconds(s, i + n + 2, e)

\* the times of the successive matches found from position from on
\* (the iterator of matchAll, and the exec loop of a global regex)
RECURSIVE MatchTimes(_, _)
MatchTimes(s, from) ==
  LET i == NextTimestamp(s, from)
  IN  IF i = 0 THEN <<>>
      ELSE <<MatchTime(s, i, TimestampEnd(s, i))>>
             \o MatchTimes(s, TimestampEnd(s, i))

\* line.replace(LRC_TIMESTAMP_REGEX, ''): every match removed, scanning
\* from the start of the string
RECURSIVE RemoveTimestamps(_, _)
RemoveTimestamps(s, from) ==
  LET i == NextTimestamp(s, from)
  IN  IF i = 0 THEN Slice(s, from, Len(s))
      ELSE Slice(s, from, i - 1) \o RemoveTimestamps(s, TimestampEnd(s, i))

\* ------------------------------------------------------- METADATA_REGEX
MetaKeys == { <<"t", "i">>, <<"a", "r">>, <<"a", "l">>, <<"b", "y">>,
              <<"o", "f", "f", "s", "e", "t">> }

\* /\[(ti|ar|al|by|offset):[^\]]*\]/ anchored at position i
MetadataEnd(s, i) ==
  LET keys == {k \in MetaKeys : HasAt(s, i + 1, k) /\ At(s, i + 1 + Len(k)) = ":"}
  IN  IF At(s, i) # "[" \/ keys = {} THEN 0
      ELSE LET key == CHOOSE k \in keys : TRUE
               c == i + 1 + Len(key)
               closes == {j \in (c + 1)..Len(s) : s[j] = "]"}
           IN  IF closes = {} THEN 0
               ELSE 1 + CHOOSE j \in closes : \A m \in closes : j <= m

\* leftmost position >= from at which the pattern matches, or 0
RECURSIVE NextMetadata(_, _)
NextMetadata(s, from) ==
  IF from > Len(s) THEN 0
  ELSE IF MetadataEnd(s, from) # 0 THEN from
  ELSE NextMetadata(s, from + 1)

\* line.replace(METADATA_REGEX, '')
RECURSIVE RemoveMetadata(_, _)
RemoveMetadata(s, from) ==
  LET i == NextMetadata(s, from)
  IN  IF i = 0 THEN Slice(s, from, Len(s))
      ELSE Slice(s, from, i - 1) \o RemoveMetadata(s, MetadataEnd(s, i))

\* ------------------------------------------------------ JavaScript values
\* a value handed to the lyrics functions: a string, null/undefined, or a
\* (non-zero) number standing for any truthy non-string
Str(s) == [kind |-> "string", chars |-> s]
Null == [kind |-> "null", chars |-> <<>>]
Num == [kind |-> "number", chars |-> <<>>]

Truthy(v) == (v.kind = "string" /\ v.chars # <<>>) \/ v.kind = "number"

IsString(v) == v.kind = "string"

\* ------------------------------------------------------- parseLrcLyrics
LyricsLine(t, x) == [time |-> t, text |-> x]

\* one entry per timestamp, all sharing the text (lyrics.ts 49-58)
LineEntries(times, text) == [k \in 1..Len(times) |-> LyricsLine(times[k], text)]

\* mutant: a sort that puts an entry before the entries of equal time
RECURSIVE InsertByTimeUnstable(_, _)
InsertByTimeUnstable(sorted, e) ==
  IF sorted = <<>> THEN <<e>>
  ELSE IF sorted[Len(sorted)].time < e.time THEN Append(sorted, e)
  ELSE Append(InsertByTimeUnstable(SubSeq(sorted, 1, Len(sorted) - 1), e),
              sorted[Len(sorted)])

\* Array.prototype.sort((a, b) => a.time - b.time): a stable sort
RECURSIVE InsertByTime(_, _)
InsertByTime(sorted, e) ==
  IF sorted = <<>> THEN <<e>>
  ELSE IF sorted[Len(sorted)].time <= e.time THEN Append(sorted, e)
  ELSE Append(InsertByTime(SubSeq(sorted, 1, Len(sorted) - 1), e),
              sorted[Len(sorted)])

RECURSIVE SortFrom(_, _)
SortFrom(sorted, rest) ==
  IF rest = <<>> THEN sorted
  ELSE SortFrom(InsertByTime(sorted, Head(rest)), Tail(rest))

SortByTime(lines) == SortFrom(<<>>, lines)

\* the callback of lines.forEach (lyrics.ts 28-59) applied to the lines in
\* order; li is LRC_TIMESTAMP_REGEX.lastIndex, which matchAll copies into
\* its clone and which replace leaves at 0
RECURSIVE ParseLines(_, _, _)
ParseLines(lines, li, parsedLines) ==
  IF lines = <<>> THEN [lines |-> parsedLines, lastIndex |-> li]
  ELSE
    LET line == Head(lines)
        cleanLine == Trim(RemoveMetadata(line, 1))
        timestamps == MatchTimes(line, li + 1)
        text == Trim(RemoveTimestamps(line, 1))
    IN  IF cleanLine = <<>> \/ timestamps = <<>>
        THEN ParseLines(Tail(lines), li, parsedLines)
        ELSE ParseLines(Tail(lines), 0,
                        parsedLines \o LineEntries(timestamps, text))

ParseLrcBody(chars, li) ==
  LET parsed == ParseLines(SplitLines(chars), li, <<>>)
  IN  [threw |-> FALSE, lines |-> SortByTime(parsed.lines),
       lastIndex |-> parsed.lastIndex]

\* mutant: the guard of lyrics.ts 21-23 left out, so that split is called
\* on a value that is not a string
parseLrcLyricsUnguarded(lrcText, li) ==
  IF ~IsString(lrcText)
  THEN [threw |-> TRUE, lines |-> <<>>, lastIndex |-> li]
  ELSE ParseLrcBody(lrcText.chars, li)

parseLrcLyrics(lrcText, li) ==
  IF ~Truthy(lrcText) \/ ~IsString(lrcText)
  THEN [threw |-> FALSE, lines |-> <<>>, lastIndex |-> li]
  ELSE ParseLrcBody(lrcText.chars, li)

\* ---------------------------------------------------------- isLrcFormat
\* RegExp.prototype.test of the global regex: the scan starts at lastIndex
\* and leaves lastIndex after the match, or at 0 when nothing matches
RegexTest(chars, li) ==
  LET i == NextTimestamp(chars, li + 1)
  IN  IF li > Len(chars) \/ i = 0
      THEN [threw |-> FALSE, value |-> FALSE, lastIndex |-> 0]
      ELSE [threw |-> FALSE, value |-> TRUE,
            lastIndex |-> TimestampEnd(chars, i) - 1]

isLrcFormat(text, li) ==
  IF ~Truthy(text) \/ ~IsString(text)
  THEN [threw |-> FALSE, value |-> FALSE, lastIndex |-> li]
  ELSE RegexTest(text.chars, li)

\* -------------------------------------------------------- getBestLyrics
\* data is Null or a record of the four optional fields
NoData == [present |-> FALSE, syncedLyrics |-> Null, lrc |-> Null,
           lyrics |-> Null, plainLyrics |-> Null]

Best(type, content, li) ==
  [threw |-> FALSE, type |-> type, content |-> content, lastIndex |-> li]

getBestLyrics(data, li) ==
  IF ~data.present THEN Best("none", Str(<<>>), li)
  ELSE IF Truthy(data.syncedLyrics) THEN Best("synced", data.syncedLyrics, li)
  ELSE IF Truthy(data.lrc) THEN Best("synced", data.lrc, li)
  ELSE IF Truthy(data.lyrics) /\ isLrcFormat(data.lyrics, li).value
       THEN Best("synced", data.lyrics, isLrcFormat(data.lyrics, li).lastIndex)
  ELSE LET after == IF Truthy(data.lyrics)
                    THEN isLrcFormat(data.lyrics, li).lastIndex ELSE li
       IN  IF Truthy(data.plainLyrics) THEN Best("plain", data.plainLyrics, after)
           ELSE IF Truthy(data.lyrics) THEN Best("plain", data.lyrics, after)
           ELSE Best("none", Str(<<>>), after)

isValidLyrics(data) ==
  /\ data.present
  /\ \/ Truthy(data.syncedLyrics)
     \/ Truthy(data.plainLyrics)
     \/ Truthy(data.lrc)
     \/ Truthy(data.lyrics)

\* ------------------------------------------------------- findActiveLine
\* mutant: the comparison of the scan made strict
RECURSIVE ScanBackStrict(_, _, _)
ScanBackStrict(lyrics, currentTime, i) ==
  IF i < 0 THEN -1
  ELSE IF currentTime > lyrics[i + 1].time THEN i
  ELSE ScanBackStrict(lyrics, currentTime, i - 1)

\* the backward scan of lyrics.ts 204-208 from 0-based index i
RECURSIVE ScanBack(_, _, _)
ScanBack(lyrics, currentTime, i) ==
  IF i < 0 THEN -1
  ELSE IF currentTime >= lyrics[i + 1].time THEN i
  ELSE ScanBack(lyrics, currentTime, i - 1)

\* lyrics is [present, lines]: present is FALSE for a null/undefined array
findActiveLine(lyrics, currentTime) ==
  IF ~lyrics.present \/ Len(lyrics.lines) = 0 THEN -1
  ELSE ScanBack(lyrics.lines, currentTime, Len(lyrics.lines) - 1)

\* ---------------------------------------------------------- applyOffset
Max(a, b) == IF a >= b THEN a ELSE b

Min(a, b) == IF a <= b THEN a ELSE b

\* offsetMs / 1000 seconds as a count of 1/TimeScale
OffsetSeconds(offsetMs) == (offsetMs * TimeScale) \div 1000

\* The result records the returned array (value), whether it is an array
\* other than the argument (fresh), and the argument array as the call
\* leaves it (input).
\* mutant: the clamp at zero left out
applyOffsetUnclamped(lyrics, offsetMs) ==
  IF ~lyrics.present \/ Len(lyrics.lines) = 0
  THEN [value |-> <<>>, fresh |-> TRUE, input |-> lyrics.lines]
  ELSE [value |-> [k \in 1..Len(lyrics.lines) |->
                     [time |-> lyrics.lines[k].time + OffsetSeconds(offsetMs),
                      text |-> lyrics.lines[k].text]],
        fresh |-> TRUE, input |-> lyrics.lines]

applyOffset(lyrics, offsetMs) ==
  IF ~lyrics.present \/ Len(lyrics.lines) = 0
  THEN [value |-> <<>>, fresh |-> TRUE, input |-> lyrics.lines]
  ELSE [value |-> [k \in 1..Len(lyrics.lines) |->
                     [time |-> Max(0, lyrics.lines[k].time + OffsetSeconds(offsetMs)),
                      text |-> lyrics.lines[k].text]],
        fresh |-> TRUE, input |-> lyrics.lines]

\* ------------------------------------------------------ getLyricsWindow
DefaultWindowSize == 3

\* Array.prototype.slice(start, end) for start, end >= 0 (0-based, end
\* exclusive)
JsSlice(a, start, end) ==
  Slice(a, Min(start, Len(a)) + 1, Min(end, Len(a)))

\* mutant: the right edge of the window excluded
getLyricsWindowShort(lyrics, currentIndex, windowSize) ==
  IF ~lyrics.present \/ Len(lyrics.lines) = 0 \/ currentIndex < 0 THEN <<>>
  ELSE LET start == Max(0, currentIndex - windowSize)
           end == Min(Len(lyrics.lines), currentIndex + windowSize)
       IN  JsSlice(lyrics.lines, start, end)

\* windowSize is the value after the default of the parameter is applied
getLyricsWindow(lyrics, currentIndex, windowSize) ==
  IF ~lyrics.present \/ Len(lyrics.lines) = 0 \/ currentIndex < 0 THEN <<>>
  ELSE LET start == Max(0, currentIndex - windowSize)
           end == Min(Len(lyrics.lines), currentIndex + windowSize + 1)
       IN  JsSlice(lyrics.lines, start, end)

\* ---------------------------------------- formatLyricsTime, toLrcFormat
DigitChars == <<"0", "1", "2", "3", "4", "5", "6", "7", "8", "9">>

\* Number.prototype.toString of a non-negative integer
RECURSIVE ToChars(_)
ToChars(n) ==
  IF n < 10 THEN <<DigitChars[n + 1]>>
  ELSE Append(ToChars(n \div 10), DigitChars[(n % 10) + 1])

\* String.prototype.padStart(2, '0')
PadStart2(cs) == IF Len(cs) < 2 THEN <<"0">> \o cs ELSE cs

\* Math.floor((seconds % 1) * 100) is computed in IEEE-754 doubles, where
\* the product can fall just below the whole number: 0.29 * 100 is
\* 28.999999999999996.  TruncatedHundredths lists the times below 2 s, in
\* hundredths, for which the doubles give one less than the decimal value;
\* from 2 s on the operator is exact, as the doubles are for the times the
\* model feeds it (61.25 s and 6000 s).
TruncatedHundredths ==
  { 29, 57, 58, 113, 114, 115, 116, 117, 118, 119, 120, 121, 122, 138, 139,
    140, 141, 142, 143, 144, 145, 163, 164, 165, 166, 188, 189, 190, 191 }

HundredthUnit == TimeScale \div 100

FloorFrac100(t) ==
  LET exact == ((t % TimeScale) * 100) \div TimeScale
  IN  IF t % HundredthUnit = 0 /\ (t \div HundredthUnit) \in TruncatedHundredths
      THEN exact - 1 ELSE exact

formatLyricsTime(t) ==
  LET minutes == t \div (60 * TimeScale)
      secs == (t % (60 * TimeScale)) \div TimeScale
      ms == FloorFrac100(t)
  IN  PadStart2(ToChars(minutes)) \o <<":">> \o PadStart2(ToChars(secs))
        \o <<".">> \o PadStart2(ToChars(ms))

RECURSIVE JoinLines(_)
JoinLines(parts) ==
  IF parts = <<>> THEN <<>>
  ELSE IF Len(parts) = 1 THEN parts[1]
  ELSE parts[1] \o <<"\n">> \o JoinLines(Tail(parts))

toLrcFormat(lyrics) ==
  IF ~lyrics.present \/ Len(lyrics.lines) = 0 THEN <<>>
  ELSE JoinLines([k \in 1..Len(lyrics.lines) |->
                    <<"[">> \o formatLyricsTime(lyrics.lines[k].time)
                      \o <<"]">> \o lyrics.lines[k].text])

\* ------------------------------------------- extractPlayableUrl (helpers)
\* An optional string (link, url, media_url, ...) is a string; NoUrl stands
\* for null/undefined and "" for the empty string, both falsy.  A quality
\* tag is a character sequence, <<>> when empty or missing.
NoUrl == "null"

UrlTruthy(u) == u # NoUrl /\ u # ""

\* a || b || null
Or2(a, b) == IF UrlTruthy(a) THEN a ELSE IF UrlTruthy(b) THEN b ELSE NoUrl

\* literal substring test
Contains(tag, token) ==
  \E i \in 1..Len(tag) : i + Len(token) - 1 <= Len(tag) /\ HasAt(tag, i, token)

UpperCase == <<"A", "B", "C", "D", "E", "F", "G", "H", "I", "J", "K", "L", "M",
               "N", "O", "P", "Q", "R", "S", "T", "U", "V", "W", "X", "Y", "Z">>

LowerCase == <<"a", "b", "c", "d", "e", "f", "g", "h", "i", "j", "k", "l", "m",
               "n", "o", "p", "q", "r", "s", "t", "u", "v", "w", "x", "y", "z">>

Lower(c) ==
  IF \E k \in 1..26 : UpperCase[k] = c
  THEN LowerCase[CHOOSE k \in 1..26 : UpperCase[k] = c] ELSE c

LowerAll(s) == [k \in 1..Len(s) |-> Lower(s[k])]

\* new RegExp(pattern, 'i').test(tag) for the patterns qualityMap[quality]
\* can yield: a digit string is a literal, "[...]" is a character class
PatternTest(tag, pattern) ==
  IF Len(pattern) >= 2 /\ pattern[1] = "[" /\ pattern[Len(pattern)] = "]"
  THEN \E i \in 1..Len(tag) : \E k \in 2..(Len(pattern) - 1) :
         Lower(tag[i]) = Lower(pattern[k])
  ELSE Contains(LowerAll(tag), LowerAll(pattern))

\* String(qualityMap[quality]) as handed to RegExp; <<>> when the lookup is
\* falsy ('auto', or a tier that is no property of the object).  The lookup
\* goes through the prototype chain: qualityMap['__proto__'] is
\* Object.prototype, whose string is "[object Object]".
QualityMap(quality) ==
  CASE quality = "Less_low" -> <<"4", "8">>
    [] quality = "low" -> <<"9", "6">>
    [] quality = "medium" -> <<"1", "6", "0">>
    [] quality = "high" -> <<"3", "2", "0">>
    [] quality = "__proto__" ->
         <<"[", "o", "b", "j", "e", "c", "t", " ", "O", "b", "j", "e", "c", "t", "]">>
    [] OTHER -> <<>>

\* mutant: the last matching candidate instead of the first
getUrlByQualityLastMatch(downloadUrls, quality) ==
  LET lastUrl == downloadUrls[Len(downloadUrls)]
      targetBitrate == QualityMap(quality)
      matching == {i \in 1..Len(downloadUrls) :
                     downloadUrls[i].quality # <<>>
                       /\ PatternTest(downloadUrls[i].quality, targetBitrate)}
  IN  IF quality = "auto" THEN Or2(lastUrl.link, lastUrl.url)
      ELSE IF targetBitrate # <<>> /\ matching # {}
           THEN LET m == CHOOSE i \in matching : \A j \in matching : i >= j
                IN  Or2(downloadUrls[m].link, downloadUrls[m].url)
           ELSE Or2(lastUrl.link, lastUrl.url)

getUrlByQuality(downloadUrls, quality) ==
  LET lastUrl == downloadUrls[Len(downloadUrls)]
      targetBitrate == QualityMap(quality)
      matching == {i \in 1..Len(downloadUrls) :
                     downloadUrls[i].quality # <<>>
                       /\ PatternTest(downloadUrls[i].quality, targetBitrate)}
  IN  IF quality = "auto" THEN Or2(lastUrl.link, lastUrl.url)
      ELSE IF targetBitrate # <<>> /\ matching # {}
           THEN LET m == CHOOSE i \in matching : \A j \in matching : i <= j
                IN  Or2(downloadUrls[m].link, downloadUrls[m].url)
           ELSE Or2(lastUrl.link, lastUrl.url)

\* songDetails is [present, downloadUrl, download_url, media_url, url,
\* audio]; an array field is [present, items], present FALSE when missing
NoList == [present |-> FALSE, items |-> <<>>]

List(items) == [present |-> TRUE, items |-> items]

extractPlayableUrl(songDetails, quality) ==
  LET downloadUrls == IF songDetails.downloadUrl.present
                      THEN songDetails.downloadUrl ELSE songDetails.download_url
  IN  IF ~songDetails.present THEN NoUrl
      ELSE IF downloadUrls.present /\ Len(downloadUrls.items) > 0
           THEN getUrlByQuality(downloadUrls.items, quality)
           ELSE Or2(songDetails.media_url,
                    Or2(songDetails.url, songDetails.audio))

\* ------------------------------------------ storage service (part_002)
MAX_RECENTLY_PLAYED == 12
DEFAULT_QUALITY == "auto"
validQualities == {"Less_low", "low", "medium", "high", "auto"}

\* localStorage of the page: whether it can be used at all (the probe of
\* isStorageAvailable) and what is stored under the two keys
NoItem == [present |-> FALSE, text |-> <<>>]
StoredItem(text) == [present |-> TRUE, text |-> text]

LocalStorage(available, recentSongs, qualitySetting) ==
  [available |-> available,
   items |-> [recentSongs |-> recentSongs, qualitySetting |-> qualitySetting]]

isStorageAvailable(st) == st.available

getStorageItem(st, key) ==
  IF ~isStorageAvailable(st) THEN NoItem ELSE st.items[key]

\* quota: localStorage.setItem throws; the call returns whether the value
\* was written, and the storage after it
setStorageItem(st, key, value, quota) ==
  IF ~isStorageAvailable(st) \/ quota THEN [ok |-> FALSE, store |-> st]
  ELSE [ok |-> TRUE, store |-> [st EXCEPT !.items[key] = StoredItem(value)]]

\* a queue item: id 0 stands for the empty id, k for the field _k, NoKey
\* for an item without it
NoKey == <<>>
IdKey(id) == <<"id:", id>>
TitleKey(title) == <<"t:", title>>

QueueItem(id, title, k) ==
  [id |-> id, title |-> title, artist |-> "artist", cover |-> "cover",
   k |-> k]

\* JSON text is kept as the value it encodes; a text that is no JSON has
\* valid = FALSE.  An item without _k is written without it and read back
\* without it.
JsonStringify(v) == [valid |-> TRUE, value |-> v]
safeJsonParse(json, fallback) == IF json.valid THEN json.value ELSE fallback

\* the filter of loadRecentlyPlayed
IsStoredSong(item) ==
  item.id # 0 /\ item.title # "" /\ item.artist # "" /\ item.cover # ""

loadRecentlyPlayed(st) ==
  LET data == getStorageItem(st, "recentSongs")
  IN  IF ~data.present THEN <<>>
      ELSE SelectSeq(safeJsonParse(data.text, <<>>), IsStoredSong)

\* the argument of saveRecentlyPlayed: an array or some other value
Arr(items) == [isArray |-> TRUE, items |-> items]
NotArray == [isArray |-> FALSE, items |-> <<>>]

\* mutant: the list written as given
saveRecentlyPlayedUncapped(st, songs, quota) ==
  IF ~songs.isArray THEN [ok |-> FALSE, store |-> st]
  ELSE setStorageItem(st, "recentSongs", JsonStringify(songs.items), quota)

saveRecentlyPlayed(st, songs, quota) ==
  IF ~songs.isArray THEN [ok |-> FALSE, store |-> st]
  ELSE LET limitedSongs == JsSlice(songs.items, 0, MAX_RECENTLY_PLAYED)
       IN  setStorageItem(st, "recentSongs", JsonStringify(limitedSongs),
                          quota)

\* song._k || `id:${song.id}`
RecentKey(song) == IF song.k # NoKey THEN song.k ELSE IdKey(song.id)

addToRecentlyPlayed(st, song, quota) ==
  LET recentSongs == loadRecentlyPlayed(st)
      key == RecentKey(song)
      filtered == SelectSeq(recentSongs, LAMBDA item : item.k # key)
      updated == JsSlice(<<[song EXCEPT !.k = key]>> \o filtered, 0,
                         MAX_RECENTLY_PLAYED)
  IN  saveRecentlyPlayed(st, Arr(updated), quota)

\* mutant: the stored string returned without looking at it
loadQualitySettingUnchecked(st) ==
  LET data == getStorageItem(st, "qualitySetting")
  IN  IF ~data.present \/ data.text = "" THEN DEFAULT_QUALITY
      ELSE data.text

loadQualitySetting(st) ==
  LET data == getStorageItem(st, "qualitySetting")
  IN  IF ~data.present \/ data.text = "" THEN DEFAULT_QUALITY
      ELSE IF data.text \in validQualities THEN data.text
      ELSE DEFAULT_QUALITY

saveQualitySetting(st, quality, quota) ==
  IF quality \notin validQualities THEN [ok |-> FALSE, store |-> st]
  ELSE setStorageItem(st, "qualitySetting", quality, quota)

\* ------------------------------------------------------ the player (main)
\* the application state of main.ts, as constructed
AppState ==
  [queue |-> <<>>, currentIndex |-> 0 - 1, isPlaying |-> FALSE,
   recentlyPlayed |-> <<>>, shuffleMode |-> FALSE, repeatMode |-> FALSE,
   qualitySetting |-> "auto"]

\* the audio element: src is the id of the song whose URL it was given, 0
\* before any
NoSrc == 0
Audio == [src |-> NoSrc]

\* A song of the API is its id (1, 2, ...); getTitle, getArtist and
\* getCover give non-empty strings.  The fields url, raw and quality of the
\* item are left out: whether a URL can be resolved is an input of the
\* step that resolves it.
songToQueueItem(song) == QueueItem(song, "title", IdKey(song))

QueueOf(songs) == [i \in 1..Len(songs) |-> songToQueueItem(songs[i])]

\* An async call suspended at an await: the call, the await it stands at,
\* and the locals it holds (index and item).  Equal suspended calls count
\* once.
PlayIndexCall(index, item) ==
  [op |-> "playIndex", at |-> "ensureUrlFor", index |-> index, item |-> item]

SuggestionsCall(index, item) ==
  [op |-> "ended", at |-> "getSongSuggestions", index |-> index,
   item |-> item]

\* playIndex up to its first await: the suspended calls after it
playIndex(st, pend, index) ==
  IF index < 0 \/ index >= Len(st.queue) THEN pend
  ELSE pend \cup {PlayIndexCall(index, st.queue[index + 1])}

\* the operator % of JavaScript: the remainder has the sign of the dividend
JsRem(a, b) == IF a >= 0 THEN a % b ELSE 0 - ((0 - a) % b)

\* Math.floor(Math.random() * length), moved on by one when it hits the
\* current index
\* mutant: the random index taken as it comes
ShuffleIndexesAny(st) == 0..(Len(st.queue) - 1)

ShuffleIndexes(st) ==
  {IF Len(st.queue) > 1 /\ r = st.currentIndex
   THEN JsRem(r + 1, Len(st.queue)) ELSE r : r \in 0..(Len(st.queue) - 1)}

NextIndexes(st) ==
  IF st.shuffleMode THEN ShuffleIndexes(st)
  ELSE {JsRem(st.currentIndex + 1, Len(st.queue))}

PrevIndexes(st) ==
  IF st.shuffleMode THEN ShuffleIndexes(st)
  ELSE {JsRem(st.currentIndex - 1 + Len(st.queue), Len(st.queue))}

\* nextSong and prevSong up to the await in playIndex: the sets of
\* suspended calls they can leave
nextSong(st, pend) ==
  IF Len(st.queue) = 0 THEN {pend}
  ELSE {playIndex(st, pend, i) : i \in NextIndexes(st)}

prevSong(st, pend) ==
  IF Len(st.queue) = 0 THEN {pend}
  ELSE {playIndex(st, pend, i) : i \in PrevIndexes(st)}

\* state.queue = list; state.currentIndex = index (click handlers)
QueueSet(st, items, index) ==
  [st EXCEPT !.queue = items, !.currentIndex = index]

\* mutant: the suggestions put behind the queue
QueueFromSuggestionsAppended(st, suggestions) ==
  [st EXCEPT !.queue = st.queue \o QueueOf(suggestions), !.currentIndex = 0]

\* the ended handler once a non-empty suggestion list has arrived
QueueFromSuggestions(st, suggestions) ==
  [st EXCEPT !.queue = QueueOf(suggestions), !.currentIndex = 0]

\* mutant: repeat gives way on the last track
RepeatUnlessLast(st) ==
  st.repeatMode /\ st.currentIndex < Len(st.queue) - 1

\* the first test of the ended handler
RepeatFirst(st) == st.repeatMode

\* state.queue[state.currentIndex] is an item
HasCurrentSong(st) ==
  st.currentIndex >= 0 /\ st.currentIndex < Len(st.queue)

\* ------------------------------------------------------------------ inputs
\* lyrics texts are concatenations of at most MaxFrags of these fragments:
\* well-formed tags (two of them with the same time), a malformed tag, an
\* open and a closed metadata tag, and plain characters
Fragments ==
  { <<"[", "0", "0", ":", "0", "1", "]">>,
    <<"[", "0", ":", "0", "1", "]", "b">>,
    <<"[", "0", ":", "0", "2", ".", "5", "]">>,
    <<"[", "0", ":", "1", "]">>,
    <<"[", "t", "i", ":">>,
    <<"[", "a", "r", ":", "a", "]">>,
    <<"]">>, <<"a">>, <<" ">>, <<"\n">> }

RECURSIVE TextsOf(_)
TextsOf(n) ==
  IF n = 0 THEN {<<>>}
  ELSE LET shorter == TextsOf(n - 1)
       IN  shorter \cup {t \o f : t \in shorter, f \in Fragments}

Texts == TextsOf(MaxFrags)

TextInputs == {Str(t) : t \in Texts} \cup {Null, Num}

\* the fields of a lyrics response
FieldValues ==
  { Null, Str(<<>>), Str(<<"a">>),
    Str(<<"[", "0", "0", ":", "0", "1", "]", "a">>) }

DataInputs ==
  {NoData} \cup
  [present : {TRUE}, syncedLyrics : FieldValues, lrc : FieldValues,
   lyrics : FieldValues, plainLyrics : FieldValues]

\* line sequences sorted by time, as parseLrcLyrics returns them
IsSorted(lines) == \A i \in 1..(Len(lines) - 1) : lines[i].time <= lines[i + 1].time

TimedLines == {LyricsLine(t, <<"a">>) : t \in 0..MaxTime}

RECURSIVE SeqsOf(_, _)
SeqsOf(S, n) ==
  IF n = 0 THEN {<<>>}
  ELSE LET shorter == SeqsOf(S, n - 1)
       IN  shorter \cup {Append(q, e) : q \in shorter, e \in S}

LineInputs ==
  {[present |-> FALSE, lines |-> <<>>]} \cup
  {[present |-> TRUE, lines |-> q] : q \in {x \in SeqsOf(TimedLines, MaxLines) : IsSorted(x)}}

TimeInputs == 0..(MaxTime + 1)

OffsetInputs == (0 - MaxTime - 1)..(MaxTime + 1)

IndexInputs == (0 - 1)..MaxLines

\* a window radius; the argument may also be left out
WindowInputs == 0..MaxWindow

\* line sequences for re-encoding: sorted by time, times in whole
\* hundredths of a second (0, 0.29, 1.5, 61.25 and 6000 s), texts trimmed
\* and free of brackets and newlines
RoundTripHundredths == {0, 29, 150, 6125, 600000}

RoundTripLines ==
  {LyricsLine(h * HundredthUnit, x) : h \in RoundTripHundredths,
                                      x \in {<<>>, <<"a">>}}

RoundTripInputs ==
  {[present |-> TRUE, lines |-> q] :
     q \in {x \in SeqsOf(RoundTripLines, MaxLines) : IsSorted(x)}}

\* media candidates and song details
Tags == { <<>>, <<"9", "6", "k", "b", "p", "s">>,
          <<"3", "2", "0", "k", "b", "p", "s">> }

Candidates == [quality : Tags, link : {NoUrl, "l1", "l2"}, url : {NoUrl, "", "u1"}]

CandidateLists == SeqsOf(Candidates, MaxCands)

AltLists == {NoList, List(<<[quality |-> <<>>, link |-> "l3", url |-> NoUrl]>>)}

Fallbacks == { <<NoUrl, NoUrl, NoUrl>>, <<"m", NoUrl, NoUrl>>,
               <<"", "u", NoUrl>>, <<NoUrl, NoUrl, "a">> }

NoSong == [present |-> FALSE, downloadUrl |-> NoList, download_url |-> NoList,
           media_url |-> NoUrl, url |-> NoUrl, audio |-> NoUrl]

SongInputs ==
  {NoSong} \cup
  {[present |-> TRUE, downloadUrl |-> d, download_url |-> a,
    media_url |-> f[1], url |-> f[2], audio |-> f[3]] :
     d \in {NoList} \cup {List(c) : c \in CandidateLists},
     a \in AltLists, f \in Fallbacks}

\* the five tiers, a string that is no tier, and a string that names a
\* member of Object.prototype
QualityInputs ==
  {"Less_low", "low", "medium", "high", "auto", "ultra", "__proto__"}

\* songs for the recently-played list: complete items, an item without
\* _k and an item without a title
Song(n) == QueueItem(n, "title", IdKey(n))
NoKeySong(n) == QueueItem(n, "title", NoKey)
Untitled(n) == QueueItem(n, "", IdKey(n))

Prefix(n) == [i \in 1..n |-> Song(i)]

\* arguments of saveRecentlyPlayed: no array, the first n songs for every
\* n up to MaxSongs (longer than the cap), a list of irregular items
SaveInputs ==
  {NotArray} \cup {Arr(Prefix(n)) : n \in 0..MaxSongs}
    \cup {Arr(<<NoKeySong(1), Untitled(2)>>)}

\* arguments of addToRecentlyPlayed
AddInputs ==
  {Song(1), Song(MaxSongs - 1), Song(MaxSongs), NoKeySong(2), Untitled(3)}

\* strings an earlier session or another program left under
\* qualitySetting
StoredQualities == {"", "ultra", "HIGH", "high"}

\* result lists of a search, songs of an album: the first n songs
Tracks(n) == [i \in 1..n |-> i]

ResultLists == {Tracks(n) : n \in 0..MaxTracks}

AlbumLists == {Tracks(n) : n \in 1..MaxTracks}

\* what getSongSuggestions returns; the empty list also when it fails
\* positions of the audio element, in whole seconds
PlayTimes == {t * TimeScale : t \in 0..(MaxTime + 1)}

\* HTTP statuses a server answers with
Statuses == {200, 404, 500}

SuggestionLists == {<<>>, <<MaxTracks>>, <<MaxTracks, 1>>}

\* ------------------------------------------------------- fetchWithTimeout
\* what a promise settles with: a Response, or an error with its name,
\* message and statusCode (0: the property is not set)
NoValue == [kind |-> "none", name |-> "", message |-> "", status |-> 0]

Response(status) ==
  [kind |-> "response", name |-> "", message |-> "", status |-> status]

JsError(name, message, statusCode) ==
  [kind |-> "error", name |-> name, message |-> message,
   status |-> statusCode]

\* what fetch rejects with when its signal is aborted
AbortError == JsError("AbortError", "The operation was aborted", 0)

\* what fetch rejects with when the network fails
NetworkError == JsError("TypeError", "Failed to fetch", 0)

createApiError(message, statusCode) ==
  JsError("MusicPlayerError", message, statusCode)

\* the error the catch block throws
Rethrown(error) ==
  IF error.name = "AbortError" THEN createApiError("Request timeout", 408)
  ELSE error

\* mutant: the timer is left running
clearTimeoutMissed(timer) == timer

\* clearTimeout(timeoutId): a timer that has not fired never will
clearTimeout(timer) == IF timer = "armed" THEN "cleared" ELSE timer

\* one call of fetchWithTimeout: where the call is, its timer, its
\* controller's signal, the promise of fetch and what the call ended with
FetchCall(phase, timeout, clock, timer, aborted, request, settled, outcome) ==
  [phase |-> phase, timeout |-> timeout, clock |-> clock, timer |-> timer,
   aborted |-> aborted, request |-> request, settled |-> settled,
   outcome |-> outcome]

NoCall == FetchCall("idle", 0, 0, "none", FALSE, "none", NoValue, NoValue)

\* ---------------------------------------------------- the lyrics display
\* elements.lyricsContainer: one entry per rendered line, TRUE where the
\* line carries the class active-line
NoLyrics == [lines |-> <<>>]

\* children: one entry per child of the container, TRUE where it carries
\* the class active-line
Container(children) == [lines |-> children]

\* what has been asked of the player so far: the number of playIndex calls
\* on an index of the queue, the index of the latest, whether that call
\* has got its URL, and per queue position the song-detail fetches issued
History(requests, requested, resolved, fetches) ==
  [requests |-> requests, requested |-> requested, resolved |-> resolved,
   fetches |-> fetches]

NoHistory == History(0, 0 - 1, FALSE, <<>>)

\* ------------------------------------------------- one queue, in detail
\* The player on a queue that stays as it is: the items with their cached
\* url, and of state the fields playIndex and the lyrics display write.
NullUrl == NoSrc

TrackItem(id) == [id |-> id, url |-> NullUrl]

TrackState(songs) ==
  [queue |-> [i \in 1..Len(songs) |-> TrackItem(songs[i])],
   currentIndex |-> 0 - 1, isPlaying |-> FALSE, parsedLyrics |-> <<>>]

\* the URL extractPlayableUrl finds in the details of a song
PlayableUrl(id) == id

\* the synced lyrics the lyrics API holds for a song: two lines, the first
\* at id seconds
LrcOf(id) ==
  <<"[", "0", "0", ":", "0">> \o ToChars(id) \o <<"]", "a", "\n">>
    \o <<"[", "0", "0", ":", "0">> \o ToChars(id + 1) \o <<"]", "b">>

\* what a call keeps of the moment it was made
Before(st, pend, aud) ==
  [currentIndex |-> st.currentIndex, isPlaying |-> st.isPlaying,
   src |-> aud.src, parsedLyrics |-> st.parsedLyrics, alone |-> pend = {}]

\* a suspended call: the n-th playIndex, or the fetchAndDisplayLyrics it
\* started, waiting at an await
TrackCall(op, n, index, at, before) ==
  [op |-> op, n |-> n, index |-> index, at |-> at, before |-> before]

\* the playIndex calls that wait for audio.play()
Interrupted(pend) == {q \in pend : q.op = "playIndex" /\ q.at = "play"}

\* playIndex from the settling of play() to its end (main.ts 256-271):
\* isPlaying and currentIndex are set and fetchAndDisplayLyrics waits for
\* getLyrics
AfterPlay(st, pend, q, played) ==
  [state |-> [st EXCEPT !.isPlaying = played, !.currentIndex = q.index],
   pending |-> (pend \ {q})
                 \cup {[q EXCEPT !.op = "fetchAndDisplayLyrics",
                                 !.at = "getLyrics"]}]

\* audio.src = url (main.ts 254): the load of the new source rejects the
\* play() promise a call is waiting for, and that call runs to its end
\* before any other task
AfterLoad(st, pend) ==
  IF Interrupted(pend) = {} THEN [state |-> st, pending |-> pend]
  ELSE AfterPlay(st, pend, CHOOSE q \in Interrupted(pend) : TRUE, FALSE)

\* clearLyricsDisplay (main.ts 355-359)
clearLyricsDisplay(st) == [st EXCEPT !.parsedLyrics = <<>>]

\* syncLyrics (main.ts 429-457): the container after the call
syncLyrics(st, d, currentTime) ==
  LET lyrics == [present |-> TRUE, lines |-> st.parsedLyrics]
      activeIndex == findActiveLine(lyrics, currentTime)
      isLastLine == activeIndex = Len(st.parsedLyrics) - 1
  IN  IF Len(st.parsedLyrics) = 0 THEN d
      ELSE IF activeIndex >= 0
           THEN Container([i \in 1..Len(d.lines) |->
                             i - 1 = activeIndex /\ ~isLastLine])
           ELSE d

\* ----------------------------------------------------------- the machine
\* The module holds one piece of state, LRC_TIMESTAMP_REGEX.lastIndex.  A
\* call runs to completion (JavaScript is single-threaded); pc, fn, arg and
\* result record the call that has just returned to the event-driven caller.
Nothing == <<>>

Init ==
  /\ lastIndex = 0
  /\ pc = "idle"
  /\ fn = "none"
  /\ arg = Nothing
  /\ result = Nothing
  /\ store = LocalStorage(TRUE, NoItem, NoItem)
  /\ state = AppState
  /\ pending = {}
  /\ audio = Audio
  /\ net = NoCall
  /\ dom = NoLyrics
  /\ hist = NoHistory

Returned(name, a, r, li) ==
  /\ pc' = "returned"
  /\ fn' = name
  /\ arg' = a
  /\ result' = r
  /\ lastIndex' = li
  /\ UNCHANGED <<store, state, pending, audio, net, dom, hist>>

CallIsLrcFormat ==
  /\ pc = "idle"
  /\ \E text \in TextInputs :
       LET r == isLrcFormat(text, lastIndex)
       IN  Returned("isLrcFormat", text, r, r.lastIndex)

CallParseLrcLyrics ==
  /\ pc = "idle"
  /\ \E text \in TextInputs :
       LET r == parseLrcLyrics(text, lastIndex)
       IN  Returned("parseLrcLyrics", text, r, r.lastIndex)

CallGetBestLyrics ==
  /\ pc = "idle"
  /\ \E data \in DataInputs :
       LET r == getBestLyrics(data, lastIndex)
       IN  Returned("getBestLyrics", data, r, r.lastIndex)

CallFindActiveLine ==
  /\ pc = "idle"
  /\ \E lyrics \in LineInputs, currentTime \in TimeInputs :
       Returned("findActiveLine",
                [lyrics |-> lyrics, currentTime |-> currentTime],
                findActiveLine(lyrics, currentTime), lastIndex)

CallExtractPlayableUrl ==
  /\ pc = "idle"
  /\ \E songDetails \in SongInputs, quality \in QualityInputs :
       Returned("extractPlayableUrl",
                [songDetails |-> songDetails, quality |-> quality],
                extractPlayableUrl(songDetails, quality), lastIndex)

CallApplyOffset ==
  /\ pc = "idle"
  /\ \E lyrics \in LineInputs, offsetMs \in OffsetInputs :
       Returned("applyOffset", [lyrics |-> lyrics, offsetMs |-> offsetMs],
                applyOffset(lyrics, offsetMs), lastIndex)

CallGetLyricsWindow ==
  /\ pc = "idle"
  /\ \E lyrics \in LineInputs, currentIndex \in IndexInputs,
        given \in BOOLEAN, w \in WindowInputs :
       LET windowSize == IF given THEN w ELSE DefaultWindowSize
       IN  Returned("getLyricsWindow",
                    [lyrics |-> lyrics, currentIndex |-> currentIndex,
                     windowSize |-> windowSize],
                    getLyricsWindow(lyrics, currentIndex, windowSize),
                    lastIndex)

\* parseLrcLyrics applied to the text toLrcFormat returns
CallRoundTrip ==
  /\ pc = "idle"
  /\ \E lyrics \in RoundTripInputs :
       LET lrc == toLrcFormat(lyrics)
           r == parseLrcLyrics(Str(lrc), lastIndex)
       IN  Returned("roundTrip", lyrics,
                    [lrc |-> lrc, lines |-> r.lines], r.lastIndex)

\* a call of the storage service: it returns r and leaves the storage st
StorageReturned(name, a, r, st) ==
  /\ pc' = "returned"
  /\ fn' = name
  /\ arg' = a
  /\ result' = r
  /\ store' = st
  /\ UNCHANGED <<lastIndex, state, pending, audio, net, dom, hist>>

CallLoadRecentlyPlayed ==
  /\ pc = "idle"
  /\ StorageReturned("loadRecentlyPlayed", Nothing,
                     loadRecentlyPlayed(store), store)

CallSaveRecentlyPlayed ==
  /\ pc = "idle"
  /\ \E songs \in SaveInputs, quota \in BOOLEAN :
       LET r == saveRecentlyPlayed(store, songs, quota)
       IN  StorageReturned("saveRecentlyPlayed", songs, r.ok, r.store)

CallAddToRecentlyPlayed ==
  /\ pc = "idle"
  /\ \E song \in AddInputs, quota \in BOOLEAN :
       LET r == addToRecentlyPlayed(store, song, quota)
       IN  StorageReturned("addToRecentlyPlayed", song, r.ok, r.store)

CallLoadQualitySetting ==
  /\ pc = "idle"
  /\ StorageReturned("loadQualitySetting", Nothing,
                     loadQualitySetting(store), store)

CallSaveQualitySetting ==
  /\ pc = "idle"
  /\ \E quality \in QualityInputs, quota \in BOOLEAN :
       LET r == saveQualitySetting(store, quality, quota)
       IN  StorageReturned("saveQualitySetting", quality, r.ok, r.store)

\* the quality button of the settings sheet (main.ts 1017-1024)
ClickQualityButton ==
  /\ pc = "idle"
  /\ \E quality \in QualityInputs, quota \in BOOLEAN :
       LET r == saveQualitySetting(store, quality, quota)
       IN  /\ pc' = "returned"
           /\ fn' = "qualityButton"
           /\ arg' = quality
           /\ result' = r.ok
           /\ store' = r.store
           /\ state' = [state EXCEPT !.qualitySetting = quality]
           /\ UNCHANGED <<lastIndex, pending, audio, net, dom, hist>>

\* at most MaxPending calls are suspended at a time
Within(pend) == Cardinality(pend) <= MaxPending

\* A handler of the player has run up to its next await.  For the ended
\* handler and for the end of playIndex, fn, arg and result record the
\* step and what it was given; the other handlers leave no record.
Handled(name, a, r, st, pend, aud, sto) ==
  /\ Within(pend)
  /\ fn' = name
  /\ arg' = a
  /\ result' = r
  /\ state' = st
  /\ pending' = pend
  /\ audio' = aud
  /\ store' = sto
  /\ UNCHANGED <<lastIndex, pc, net, dom, hist>>

\* searchAndQueue once the results are there (main.ts 333-346)
SearchAndQueue ==
  /\ \E results \in ResultLists :
       LET st == QueueSet(state, QueueOf(results),
                          IF Len(results) > 0 THEN 0 ELSE 0 - 1)
       IN  Handled("none", Nothing, Nothing, st,
                   playIndex(st, pending, st.currentIndex), audio, store)

\* click on a search result (main.ts 693-699)
SearchResultClick ==
  /\ \E results \in ResultLists :
       \E index \in 0..(Len(results) - 1) :
         LET st == QueueSet(state, QueueOf(results), index)
         IN  Handled("none", Nothing, Nothing, st,
                     playIndex(st, pending, st.currentIndex), audio, store)

\* click on a track of the album view (main.ts 592-598)
AlbumTrackClick ==
  /\ \E songs \in AlbumLists :
       \E index \in 0..(Len(songs) - 1) :
         LET st == QueueSet(state, QueueOf(songs), index)
         IN  Handled("none", Nothing, Nothing, st,
                     playIndex(st, pending, index), audio, store)

\* the play button of the album view (main.ts 604-611)
AlbumPlayClick ==
  /\ \E songs \in AlbumLists :
       LET st == QueueSet(state, QueueOf(songs), 0)
       IN  Handled("none", Nothing, Nothing, st,
                   playIndex(st, pending, 0), audio, store)

\* click on a card of the recently-played row (main.ts 511-515)
RecentlyClick ==
  /\ \E k \in 1..Len(state.recentlyPlayed) :
       LET st == QueueSet(state, <<state.recentlyPlayed[k]>>, 0)
       IN  Handled("none", Nothing, Nothing, st,
                   playIndex(st, pending, 0), audio, store)

\* the next and previous buttons (main.ts 274-307); arg is the index they
\* pass to playIndex, -1 when they return at once
NextSong ==
  IF Len(state.queue) = 0
  THEN Handled("nextSong", 0 - 1, Nothing, state, pending, audio, store)
  ELSE \E i \in NextIndexes(state) :
         Handled("nextSong", i, Nothing, state, playIndex(state, pending, i),
                 audio, store)

PrevSong ==
  IF Len(state.queue) = 0
  THEN Handled("prevSong", 0 - 1, Nothing, state, pending, audio, store)
  ELSE \E i \in PrevIndexes(state) :
         Handled("prevSong", i, Nothing, state, playIndex(state, pending, i),
                 audio, store)

ShuffleClick ==
  Handled("none", Nothing, Nothing,
          [state EXCEPT !.shuffleMode = ~state.shuffleMode],
          pending, audio, store)

RepeatClick ==
  Handled("none", Nothing, Nothing,
          [state EXCEPT !.repeatMode = ~state.repeatMode],
          pending, audio, store)

\* the 'ended' event of the audio element, up to the first await
\* (main.ts 733-756); it needs a source to have played
Ended ==
  /\ audio.src # NoSrc
  /\ IF RepeatFirst(state)
     THEN Handled("ended", Nothing, Nothing, state,
                  playIndex(state, pending, state.currentIndex), audio, store)
     ELSE IF /\ state.currentIndex >= Len(state.queue) - 1
             /\ HasCurrentSong(state)
             /\ state.queue[state.currentIndex + 1].id # 0
     THEN Handled("ended", Nothing, Nothing, state,
                  pending \cup
                    {SuggestionsCall(state.currentIndex,
                                     state.queue[state.currentIndex + 1])},
                  audio, store)
     ELSE \E pend \in nextSong(state, pending) :
            Handled("ended", Nothing, Nothing, state, pend, audio, store)

\* getSongSuggestions has returned to the ended handler (main.ts 741-754)
SuggestionsArrive ==
  \E p \in pending :
    /\ p.at = "getSongSuggestions"
    /\ \E suggestions \in SuggestionLists :
         IF Len(suggestions) > 0
         THEN LET st == QueueFromSuggestions(state, suggestions)
              IN  Handled("suggestions", suggestions, Nothing, st,
                          playIndex(st, pending \ {p}, 0), audio, store)
         ELSE \E pend \in nextSong(state, pending \ {p}) :
                Handled("suggestions", suggestions, Nothing, state, pend,
                        audio, store)

\* ensureUrlFor has returned to playIndex (main.ts 246-252): without a URL
\* the call ends, with one the audio element is given it and asked to play
UrlResolved ==
  \E p \in pending :
    /\ p.at = "ensureUrlFor"
    /\ \E resolved \in BOOLEAN :
         IF resolved
         THEN Handled("none", Nothing, Nothing, state,
                      (pending \ {p}) \cup {[p EXCEPT !.at = "play"]},
                      [audio EXCEPT !.src = p.item.id], store)
         ELSE Handled("none", Nothing, Nothing, state, pending \ {p}, audio,
                      store)

\* audio.play() has settled and playIndex runs to its end (main.ts
\* 254-271); quota: the storage is full while it runs, and its two writes
\* fail
PlaySettled ==
  \E p \in pending :
    /\ p.at = "play"
    /\ \E played \in BOOLEAN, quota \in BOOLEAN :
         LET added == addToRecentlyPlayed(store, p.item, quota)
             saved == saveRecentlyPlayed(added.store,
                                         Arr(state.recentlyPlayed), quota)
         IN  Handled("playIndex", p,
                     [added |-> added.ok, saved |-> saved.ok],
                     [state EXCEPT !.isPlaying = played,
                                   !.currentIndex = p.index],
                     pending \ {p}, audio, saved.store)

\* the caller takes the returned value and goes back to its event loop
Return ==
  /\ pc = "returned"
  /\ pc' = "idle"
  /\ fn' = "none"
  /\ arg' = Nothing
  /\ result' = Nothing
  /\ UNCHANGED <<lastIndex, store, state, pending, audio, net, dom,
               hist>>

\* ---- the player on one queue
Tracked(name, a, r, li, st, pend, aud, d, h) ==
  /\ Within(pend)
  /\ fn' = name
  /\ arg' = a
  /\ result' = r
  /\ lastIndex' = li
  /\ state' = st
  /\ pending' = pend
  /\ audio' = aud
  /\ dom' = d
  /\ hist' = h
  /\ UNCHANGED <<pc, store, net>>

\* a handler calls playIndex(index) (main.ts 239-254, with ensureUrlFor
\* 214-220 up to its await): out of range it returns; otherwise the
\* display is cleared and either the cached URL goes to the audio element
\* and play() is awaited, or the song details are fetched
CallPlayIndex ==
  /\ hist.requests < MaxRequests
  /\ \E index \in (0 - 1)..Len(state.queue) :
       IF index < 0 \/ index >= Len(state.queue)
       THEN Tracked("playIndex", index, Nothing, lastIndex, state, pending,
                    audio, dom, hist)
       ELSE LET item == state.queue[index + 1]
                n == hist.requests + 1
                before == Before(state, pending, audio)
                loaded == AfterLoad(clearLyricsDisplay(state), pending)
            IN  IF item.url # NullUrl
                THEN Tracked("playIndex", index, Nothing, lastIndex,
                             loaded.state,
                             loaded.pending
                               \cup {TrackCall("playIndex", n, index, "play",
                                               before)},
                             [audio EXCEPT !.src = item.url], NoLyrics,
                             History(n, index, TRUE, hist.fetches))
                ELSE Tracked("playIndex", index, Nothing, lastIndex,
                             clearLyricsDisplay(state),
                             pending \cup {TrackCall("playIndex", n, index,
                                                     "getSongDetails",
                                                     before)},
                             audio, NoLyrics,
                             History(n, index, FALSE,
                                     [hist.fetches EXCEPT ![index + 1] = @ + 1]))

\* getSongDetails settles (main.ts 221-254): with a URL, which is cached in
\* the item and given to the audio element before play() is awaited, or
\* without one (the fetch failed, returned nothing or held no URL), and
\* playIndex returns
DetailsArrive ==
  \E p \in pending :
    /\ p.at = "getSongDetails"
    /\ \E found \in BOOLEAN :
         LET url == PlayableUrl(state.queue[p.index + 1].id)
             loaded == AfterLoad([state EXCEPT !.queue[p.index + 1].url = url],
                                 pending \ {p})
         IN  IF found
             THEN Tracked("ensureUrlFor", p, url, lastIndex, loaded.state,
                          loaded.pending \cup {[p EXCEPT !.at = "play"]},
                          [audio EXCEPT !.src = url], dom,
                          [hist EXCEPT !.resolved = @ \/ p.n = hist.requests])
             ELSE Tracked("ensureUrlFor", p, NullUrl, lastIndex, state,
                          pending \ {p}, audio, dom, hist)

\* audio.play() settles by itself: playback has begun, or the browser has
\* refused it
PlaySettles ==
  \E p \in pending :
    /\ p.op = "playIndex"
    /\ p.at = "play"
    /\ \E played \in BOOLEAN :
         Tracked("play", Nothing, Nothing, lastIndex,
                 AfterPlay(state, pending, p, played).state,
                 AfterPlay(state, pending, p, played).pending,
                 audio, dom, hist)

\* getLyrics settles (main.ts 398-426): with synced lyrics, which
\* renderSyncedLyrics parses and renders one <p> per line, or with none,
\* and the container holds the one paragraph "No lyrics available"
LyricsArrive ==
  \E p \in pending :
    /\ p.op = "fetchAndDisplayLyrics"
    /\ \E found \in BOOLEAN :
         LET lrcText == Str(LrcOf(state.queue[p.index + 1].id))
             parsed == parseLrcLyrics(lrcText, lastIndex)
         IN  IF found
             THEN Tracked("fetchAndDisplayLyrics", Nothing, Nothing,
                          parsed.lastIndex,
                          [state EXCEPT !.parsedLyrics = parsed.lines],
                          pending \ {p}, audio,
                          Container([i \in 1..Len(parsed.lines) |-> FALSE]),
                          hist)
             ELSE Tracked("fetchAndDisplayLyrics", Nothing, Nothing,
                          lastIndex, state, pending \ {p}, audio,
                          Container(<<FALSE>>), hist)

\* the audio element reports its position, in playback or after a seek
\* (main.ts 715-721); without parsed lyrics syncLyrics returns at once
TimeUpdate ==
  /\ audio.src # NoSrc
  /\ state.parsedLyrics # <<>>
  /\ \E currentTime \in PlayTimes :
       Tracked("timeupdate", currentTime, Nothing, lastIndex, state, pending,
               audio, syncLyrics(state, dom, currentTime), hist)

\* fetchWithTimeout(url, options, timeout): the timer is set, fetch is
\* called and the call waits for it (api.ts 45-50)
Fetching(n) ==
  /\ net' = n
  /\ UNCHANGED <<lastIndex, pc, fn, arg, result, store, state, pending,
                 audio, dom, hist>>

CallFetchWithTimeout ==
  /\ net.phase # "awaiting"
  /\ \E timeout \in 0..MaxTimeout :
       Fetching(FetchCall("awaiting", timeout, 0, "armed", FALSE, "open",
                          NoValue, NoValue))

\* time passes
Tick ==
  /\ net.phase # "idle"
  /\ net.clock < MaxClock
  /\ Fetching([net EXCEPT !.clock = @ + 1])

\* the server answers: fetch fulfils with the Response, whatever its status
ResponseArrives ==
  /\ net.request = "open"
  /\ \E status \in Statuses :
       Fetching([net EXCEPT !.request = "fulfilled",
                            !.settled = Response(status)])

NetworkFails ==
  /\ net.request = "open"
  /\ Fetching([net EXCEPT !.request = "rejected", !.settled = NetworkError])

\* the timer's callback, controller.abort(): a task of its own, run once
\* the delay has passed and never between the settling of a promise and
\* the continuation that awaits it
TimerFires ==
  /\ net.timer = "armed"
  /\ net.clock >= net.timeout
  /\ net.phase = "awaiting" => net.request = "open"
  /\ Fetching([net EXCEPT
                 !.timer = "fired",
                 !.aborted = TRUE,
                 !.request = IF @ = "open" THEN "rejected" ELSE @,
                 !.settled = IF net.request = "open" THEN AbortError ELSE @])

\* the continuation of the await: the try block returns the response, the
\* catch block throws (api.ts 58-66)
Resume ==
  /\ net.phase = "awaiting"
  /\ net.request \in {"fulfilled", "rejected"}
  /\ Fetching([net EXCEPT
                 !.timer = clearTimeout(@),
                 !.phase = IF net.request = "fulfilled" THEN "returned"
                           ELSE "thrown",
                 !.outcome = IF net.request = "fulfilled" THEN net.settled
                             ELSE Rethrown(net.settled)])

\* the lyrics service
Next ==
  \/ CallIsLrcFormat
  \/ CallParseLrcLyrics
  \/ CallGetBestLyrics
  \/ CallFindActiveLine
  \/ CallApplyOffset
  \/ CallGetLyricsWindow
  \/ Return

Spec == Init /\ [][Next]_vars

\* the parser alone, its regex never touched by isLrcFormat
NextParse ==
  \/ CallParseLrcLyrics
  \/ Return

SpecParse == Init /\ [][NextParse]_vars

\* re-encoding and parsing again, the regex never touched by isLrcFormat
NextRoundTrip ==
  \/ CallRoundTrip
  \/ Return

SpecRoundTrip == Init /\ [][NextRoundTrip]_vars

\* the recently-played list of the storage service, on a storage that
\* works or does not
InitRecent ==
  /\ lastIndex = 0
  /\ pc = "idle"
  /\ fn = "none"
  /\ arg = Nothing
  /\ result = Nothing
  /\ \E available \in BOOLEAN : store = LocalStorage(available, NoItem, NoItem)
  /\ state = AppState
  /\ pending = {}
  /\ audio = Audio
  /\ net = NoCall
  /\ dom = NoLyrics
  /\ hist = NoHistory

NextRecent ==
  \/ CallLoadRecentlyPlayed
  \/ CallSaveRecentlyPlayed
  \/ CallAddToRecentlyPlayed
  \/ Return

SpecRecent == InitRecent /\ [][NextRecent]_vars

\* the quality setting of the storage service
InitQuality ==
  /\ lastIndex = 0
  /\ pc = "idle"
  /\ fn = "none"
  /\ arg = Nothing
  /\ result = Nothing
  /\ \E available \in BOOLEAN, present \in BOOLEAN,
        quality \in StoredQualities :
       store = LocalStorage(available, NoItem,
                            IF present THEN StoredItem(quality) ELSE NoItem)
  /\ state = AppState
  /\ pending = {}
  /\ audio = Audio
  /\ net = NoCall
  /\ dom = NoLyrics
  /\ hist = NoHistory

NextQuality ==
  \/ CallLoadQualitySetting
  \/ CallSaveQualitySetting
  \/ ClickQualityButton
  \/ Return

SpecQuality == InitQuality /\ [][NextQuality]_vars

\* the player after initializeApp: loadStoredData has read the storage,
\* which is fresh or holds the list of an earlier session
InitPlayer ==
  /\ lastIndex = 0
  /\ pc = "idle"
  /\ fn = "none"
  /\ arg = Nothing
  /\ result = Nothing
  /\ \E earlier \in BOOLEAN :
       store = LocalStorage(TRUE,
                            IF earlier
                            THEN StoredItem(JsonStringify(<<Song(1)>>))
                            ELSE NoItem,
                            NoItem)
  /\ state = [AppState EXCEPT !.recentlyPlayed = loadRecentlyPlayed(store),
                              !.qualitySetting = loadQualitySetting(store)]
  /\ pending = {}
  /\ audio = Audio
  /\ net = NoCall
  /\ dom = NoLyrics
  /\ hist = NoHistory

NextPlayer ==
  \/ SearchAndQueue
  \/ SearchResultClick
  \/ AlbumTrackClick
  \/ AlbumPlayClick
  \/ RecentlyClick
  \/ NextSong
  \/ PrevSong
  \/ ShuffleClick
  \/ RepeatClick
  \/ Ended
  \/ SuggestionsArrive
  \/ UrlResolved
  \/ PlaySettled

SpecPlayer == InitPlayer /\ [][NextPlayer]_vars

\* the URL selector
NextUrl ==
  \/ CallExtractPlayableUrl
  \/ Return

SpecUrl == Init /\ [][NextUrl]_vars

\* the player on one queue of one to MaxTracks songs
InitTrack ==
  /\ lastIndex = 0
  /\ pc = "idle"
  /\ fn = "none"
  /\ arg = Nothing
  /\ result = Nothing
  /\ store = LocalStorage(TRUE, NoItem, NoItem)
  /\ \E n \in 1..MaxTracks :
       /\ state = TrackState(Tracks(n))
       /\ hist = History(0, 0 - 1, FALSE, [i \in 1..n |-> 0])
  /\ pending = {}
  /\ audio = Audio
  /\ net = NoCall
  /\ dom = NoLyrics

NextTrack ==
  \/ CallPlayIndex
  \/ DetailsArrive
  \/ PlaySettles
  \/ LyricsArrive
  \/ TimeUpdate

SpecTrack == InitTrack /\ [][NextTrack]_vars

\* fetchWithTimeout alone.  The event loop runs a timer that is due and a
\* continuation whose promise has settled, and time does not stand still.
NextFetch ==
  \/ CallFetchWithTimeout
  \/ Tick
  \/ ResponseArrives
  \/ NetworkFails
  \/ TimerFires
  \/ Resume

SpecFetch ==
  /\ Init
  /\ [][NextFetch]_vars
  /\ WF_vars(Tick)
  /\ WF_vars(TimerFires)
  /\ WF_vars(Resume)

\* ================================================================ claims
\* vocabulary of the claims
HasTimestampTag(v) ==
  IsString(v) /\ \E i \in 1..Len(v.chars) : TimestampEnd(v.chars, i) # 0

HasMetadataTag(s) == NextMetadata(s, 1) # 0

TagCount(line) == Len(MatchTimes(line, 1))

LinesOf(v) == IF IsString(v) THEN SplitLines(v.chars) ELSE <<>>

RECURSIVE SumOver(_, _)
SumOver(f, n) == IF n = 0 THEN 0 ELSE f[n] + SumOver(f, n - 1)

RECURSIVE Flatten(_)
Flatten(qs) == IF qs = <<>> THEN <<>> ELSE Head(qs) \o Flatten(Tail(qs))

CountWhere(q, Test(_)) == Cardinality({k \in 1..Len(q) : Test(q[k])})

\* the entries a physical line stands for: one per tag, sharing the text
\* that is left when every tag is removed
EntriesOfLine(line) ==
  IF TagCount(line) = 0 THEN <<>>
  ELSE LineEntries(MatchTimes(line, 1), Trim(RemoveTimestamps(line, 1)))

\* the entries in the order their timestamps are met when parsing starts
\* with LRC_TIMESTAMP_REGEX.lastIndex = li
EncounterOrder(v, li) ==
  IF ~Truthy(v) \/ ~IsString(v) THEN <<>>
  ELSE ParseLines(SplitLines(v.chars), li, <<>>).lines

TimesOf(q) == {q[k].time : k \in 1..Len(q)}

WithTime(q, t) == SelectSeq(q, LAMBDA e : e.time = t)

\* out is src ordered by time, entries of equal time in the order of src
StableSortOf(out, src) ==
  /\ Len(out) = Len(src)
  /\ IsSorted(out)
  /\ \A t \in TimesOf(src) \cup TimesOf(out) : WithTime(out, t) = WithTime(src, t)

\* C1: isLrcFormat(text) is true exactly when text contains a well-formed
\* timestamp tag, whatever calls were made before.
C1_IsLrcFormatDetectsTag ==
  fn = "isLrcFormat" => (result.value <=> HasTimestampTag(arg))

\* C2: parseLrcLyrics is a pure function of its argument: in every
\* reachable state it returns what it returns in the initial state.
C2_ParseIsPure ==
  fn = "parseLrcLyrics" => result.lines = parseLrcLyrics(arg, 0).lines

\* C3: no line emitted by parseLrcLyrics has a text that contains a
\* metadata tag.
C3_NoMetadataInText ==
  fn = "parseLrcLyrics" =>
    \A k \in 1..Len(result.lines) : ~HasMetadataTag(result.lines[k].text)

\* C4: the number of emitted lines equals the number of timestamp tags
\* that remain once the metadata tags of each line are stripped.
C4_NoTimestampFromMetadata ==
  fn = "parseLrcLyrics" =>
    LET ls == LinesOf(arg)
    IN  Len(result.lines) =
          SumOver([k \in 1..Len(ls) |-> TagCount(RemoveMetadata(ls[k], 1))],
                  Len(ls))

\* C5: the sequence parseLrcLyrics returns is non-decreasing in time and
\* entries of equal time keep the order in which they were encountered.
C5_SortedStable ==
  [][(pc = "idle" /\ fn' = "parseLrcLyrics") =>
       StableSortOf(result'.lines, EncounterOrder(arg', lastIndex))]_vars

C5_Witness ==
  /\ fn = "parseLrcLyrics"
  /\ IsString(arg)
  /\ Len(result.lines) >= 2
  /\ Len(result.lines) = Len(EncounterOrder(arg, 0))
  /\ ~IsSorted(EncounterOrder(arg, 0))

\* C6: every physical line with k >= 1 timestamp tags yields exactly k
\* entries, with the times of its tags and the line without its tags,
\* trimmed, as their text.
C6_OneEntryPerTag ==
  fn = "parseLrcLyrics" =>
    LET ls == LinesOf(arg)
    IN  result.lines =
          SortByTime(Flatten([k \in 1..Len(ls) |-> EntriesOfLine(ls[k])]))

\* C7: parseLrcLyrics never throws and returns the empty sequence when the
\* input has no well-formed timestamp tag; isLrcFormat of empty input is
\* false, without error.
C7_NeverThrows ==
  /\ fn = "parseLrcLyrics" =>
        /\ ~result.threw
        /\ (~HasTimestampTag(arg) => result.lines = <<>>)
  /\ (fn = "isLrcFormat" /\ ~Truthy(arg)) =>
        (~result.threw /\ ~result.value)

C7_Witness ==
  /\ lastIndex > 0
  /\ fn = "parseLrcLyrics"
  /\ arg = Str(<<"[", "0", ":", "1", "]", "\n", "a">>)
  /\ ~result.threw
  /\ result.lines = <<>>

\* C8: a physical line made of timestamp tags only yields one entry per
\* tag, each with the empty text.
C8_TimestampOnlyLine ==
  fn = "parseLrcLyrics" =>
    LET ls == LinesOf(arg)
        bare == [k \in 1..Len(ls) |->
                   IF Trim(RemoveTimestamps(ls[k], 1)) = <<>>
                   THEN TagCount(ls[k]) ELSE 0]
    IN  CountWhere(result.lines, LAMBDA e : e.text = <<>>)
          = SumOver(bare, Len(ls))

\* C9: on a sequence sorted by time findActiveLine returns the greatest
\* index whose time is <= t, and -1 exactly when the sequence is empty or
\* t precedes the first time.
C9_FindActiveLine ==
  fn = "findActiveLine" =>
    LET L == arg.lyrics.lines
        t == arg.currentTime
        started == {i \in 0..(Len(L) - 1) : L[i + 1].time <= t}
    IN  /\ started # {} =>
              (result \in started /\ \A i \in started : i <= result)
        /\ result = -1 <=> (Len(L) = 0 \/ t < L[1].time)

C9_Witness ==
  /\ fn = "findActiveLine"
  /\ Len(arg.lyrics.lines) = 3
  /\ arg.lyrics.lines[2].time = arg.currentTime
  /\ arg.lyrics.lines[3].time = arg.currentTime
  /\ arg.lyrics.lines[1].time < arg.currentTime
  /\ result = 2

\* C10: for a non-empty candidate list the selector returns a non-null,
\* non-empty URL, whatever the tier.
C10_NeverNullOnCandidates ==
  fn = "extractPlayableUrl" =>
    LET s == arg.songDetails
        list == IF s.downloadUrl.present THEN s.downloadUrl ELSE s.download_url
    IN  (s.present /\ list.present /\ Len(list.items) > 0) => UrlTruthy(result)

\* the candidate list extractPlayableUrl selects from, <<>> when there is none
CandidatesOf(s) ==
  IF ~s.present THEN <<>>
  ELSE IF s.downloadUrl.present THEN s.downloadUrl.items
  ELSE s.download_url.items

\* the URL a candidate carries
UrlOf(c) == Or2(c.link, c.url)

TierToken(tier) ==
  CASE tier = "Less_low" -> <<"4", "8">>
    [] tier = "low" -> <<"9", "6">>
    [] tier = "medium" -> <<"1", "6", "0">>
    [] tier = "high" -> <<"3", "2", "0">>

Tiers == {"Less_low", "low", "medium", "high"}

\* positions of the candidates whose tag contains the token of the tier
Holders(cands, tier) ==
  {i \in 1..Len(cands) : Contains(LowerAll(cands[i].quality), TierToken(tier))}

\* C11: for a tier with a token and a list in which some tag contains the
\* token, the selector returns the URL of the first such candidate.
C11_FirstMatchingCandidate ==
  (fn = "extractPlayableUrl" /\ arg.quality \in Tiers) =>
    LET cands == CandidatesOf(arg.songDetails)
        holders == Holders(cands, arg.quality)
    IN  holders # {} =>
          \E i \in holders :
            (\A j \in holders : i <= j) /\ result = UrlOf(cands[i])

C11_Witness ==
  /\ fn = "extractPlayableUrl"
  /\ arg.quality = "high"
  /\ Len(CandidatesOf(arg.songDetails)) = 2
  /\ Holders(CandidatesOf(arg.songDetails), "high") = {1, 2}
  /\ UrlOf(CandidatesOf(arg.songDetails)[1]) = "l1"
  /\ UrlOf(CandidatesOf(arg.songDetails)[2]) = "l2"
  /\ result = "l1"

\* C12: for a non-empty list the selector returns the URL of the last
\* candidate when the tier is "auto", is no tier at all, or has a token
\* that no tag contains.
C12_FallbackToLast ==
  fn = "extractPlayableUrl" =>
    LET cands == CandidatesOf(arg.songDetails)
    IN  (cands # <<>> /\
           (arg.quality \notin Tiers \/ Holders(cands, arg.quality) = {}))
          => result = UrlOf(cands[Len(cands)])

\* C13: applyOffset returns a new sequence of the same length, entry i
\* with the text of lines[i] and the time max(0, time + offsetMs/1000),
\* never negative, and leaves its input as it was.
C13_ApplyOffset ==
  (fn = "applyOffset" /\ arg.lyrics.present) =>
    LET L == arg.lyrics.lines
        out == result.value
    IN  /\ Len(out) = Len(L)
        /\ \A i \in 1..Len(L) :
              /\ out[i].text = L[i].text
              /\ out[i].time >= 0
              /\ 1000 * out[i].time
                   = Max(0, 1000 * L[i].time + arg.offsetMs * TimeScale)
        /\ result.fresh
        /\ result.input = L

C13_Witness ==
  /\ fn = "applyOffset"
  /\ Len(arg.lyrics.lines) = 2
  /\ arg.lyrics.lines[1].time + OffsetSeconds(arg.offsetMs) < 0
  /\ arg.lyrics.lines[2].time + OffsetSeconds(arg.offsetMs) > 0
  /\ result.value[1].time = 0
  /\ result.value[2].time > 0

\* C14: for 0 <= i < |L| and w >= 0 getLyricsWindow returns the slice
\* L[max(0, i-w) .. min(|L|-1, i+w)]: it holds L[i] and at most 2w+1
\* entries; for an empty L or i < 0 it returns the empty sequence.
C14_LyricsWindow ==
  fn = "getLyricsWindow" =>
    LET L == arg.lyrics.lines
        i == arg.currentIndex
        w == arg.windowSize
        lo == Max(0, i - w)
        hi == Min(Len(L) - 1, i + w)
    IN  /\ (Len(L) = 0 \/ i < 0) => result = <<>>
        /\ (0 <= i /\ i < Len(L)) =>
              /\ Len(result) = hi - lo + 1
              /\ \A k \in lo..hi : result[k - lo + 1] = L[k + 1]
              /\ result[i - lo + 1] = L[i + 1]
              /\ Len(result) <= 2 * w + 1

C14_Witness ==
  /\ fn = "getLyricsWindow"
  /\ Len(arg.lyrics.lines) = 3
  /\ arg.currentIndex = 0
  /\ arg.windowSize = 1
  /\ arg.lyrics.lines[1].time < arg.lyrics.lines[2].time
  /\ result = SubSeq(arg.lyrics.lines, 1, 2)

\* C15: parsing the re-encoded text gives back the line sequence, for
\* every sorted sequence with times in whole hundredths and plain trimmed
\* texts, times of 100 minutes or more included.
C15_RoundTrip ==
  fn = "roundTrip" => result.lines = arg.lines

\* the list stored under recentSongs, empty when nothing is stored
PersistedList(st) ==
  IF st.items.recentSongs.present
  THEN safeJsonParse(st.items.recentSongs.text, <<>>) ELSE <<>>

KeysOf(items) == {items[i].k : i \in 1..Len(items)}

\* C17: after every call of addToRecentlyPlayed and saveRecentlyPlayed
\* the stored list and the list loadRecentlyPlayed returns have at most 12
\* entries; a song added to a full list of 12 other songs goes first and
\* the last (oldest) entry is the one that goes.
C17_AtMostTwelve ==
  [][/\ Len(PersistedList(store')) <= 12
     /\ Len(loadRecentlyPlayed(store')) <= 12
     /\ (/\ pc = "idle"
         /\ fn' = "addToRecentlyPlayed"
         /\ result' = TRUE
         /\ Len(loadRecentlyPlayed(store)) = 12
         /\ RecentKey(arg') \notin KeysOf(loadRecentlyPlayed(store)))
        => PersistedList(store') =
             <<[arg' EXCEPT !.k = RecentKey(arg')]>>
               \o SubSeq(loadRecentlyPlayed(store), 1, 11)]_vars

C17_Witness ==
  /\ fn = "addToRecentlyPlayed"
  /\ result = TRUE
  /\ Len(PersistedList(store)) = 12
  /\ PersistedList(store)[1].id > 12
  /\ PersistedList(store)[12].id = 11

\* what is stored under qualitySetting is no tier
NoTierStored(st) ==
  \/ ~st.items.qualitySetting.present
  \/ st.items.qualitySetting.text \notin validQualities

SavedQuality ==
  pc = "idle" /\ fn' \in {"saveQualitySetting", "qualityButton"}
    /\ result' = TRUE

C16_PlayedSongFirst ==
  [][(fn' = "playIndex" /\ result'.added)
       => /\ Len(PersistedList(store')) > 0
          /\ PersistedList(store')[1].k = RecentKey(arg'.item)]_vars

\* the playIndex call nextSong leaves for index i
RequestsIndex(st, pend, i) == PlayIndexCall(i, st.queue[i + 1]) \in pend

\* C19: an 'ended' event with repeat off on the last track of the queue
\* asks for suggestions for that track; when a non-empty list arrives the
\* queue becomes exactly the suggestions, currentIndex 0, and playIndex(0)
\* is under way; when the list is empty (or the fetch failed) the queue is
\* left as it is and nextSong has asked for its next index.
C19_SuggestionsAtQueueEnd ==
  [][/\ (/\ fn' = "ended"
         /\ ~state.repeatMode
         /\ state.currentIndex >= 0
         /\ state.currentIndex = Len(state.queue) - 1)
        => /\ state' = state
           /\ SuggestionsCall(state.currentIndex,
                              state.queue[state.currentIndex + 1])
                \in pending'
     /\ (fn' = "suggestions" /\ Len(arg') > 0)
        => /\ state'.queue = QueueOf(arg')
           /\ state'.currentIndex = 0
           /\ RequestsIndex(state', pending', 0)
     /\ (fn' = "suggestions" /\ Len(arg') = 0)
        => /\ state' = state
           /\ Len(state.queue) > 0
                => \E i \in NextIndexes(state) :
                     RequestsIndex(state, pending', i)]_vars

C19_Witness ==
  /\ fn = "suggestions"
  /\ arg = <<MaxTracks, 1>>
  /\ state.queue = QueueOf(<<MaxTracks, 1>>)
  /\ state.currentIndex = 0
  /\ PlayIndexCall(0, songToQueueItem(MaxTracks)) \in pending

\* C20: state.currentIndex is -1 or an index of state.queue.
C20_CurrentIndexInQueue ==
  \/ state.currentIndex = 0 - 1
  \/ HasCurrentSong(state)

IdsOf(items) == [i \in 1..Len(items) |-> items[i].id]

NoRepeat(q) == \A i \in 1..Len(q) : \A j \in 1..Len(q) : q[i] = q[j] => i = j

\* C26: after every call of addToRecentlyPlayed and saveRecentlyPlayed no
\* two entries of the stored list have the same id, whether or not the
\* stored entries carry a _k key.
C26_NoSongTwice ==
  NoRepeat(IdsOf(PersistedList(store)))

\* the choice by the stated priority, a function of the data alone
ChoiceByPriority(data) ==
  IF ~isValidLyrics(data) THEN [type |-> "none", content |-> Str(<<>>)]
  ELSE IF Truthy(data.syncedLyrics)
       THEN [type |-> "synced", content |-> data.syncedLyrics]
  ELSE IF Truthy(data.lrc) THEN [type |-> "synced", content |-> data.lrc]
  ELSE IF Truthy(data.lyrics) /\ HasTimestampTag(data.lyrics)
       THEN [type |-> "synced", content |-> data.lyrics]
  ELSE IF Truthy(data.plainLyrics)
       THEN [type |-> "plain", content |-> data.plainLyrics]
  ELSE [type |-> "plain", content |-> data.lyrics]

\* C29: getBestLyrics returns the choice by the priority syncedLyrics >
\* lrc > lyrics in LRC format > plainLyrics > lyrics, 'none' exactly when
\* isValidLyrics is false, and so the same on every call for the same data.
C29_BestByPriority ==
  fn = "getBestLyrics" =>
    /\ result.type = ChoiceByPriority(arg).type
    /\ result.content = ChoiceByPriority(arg).content
    /\ (result.type = "none") <=> ~isValidLyrics(arg)

Mod(a, b) == a % b

\* C24: on a non-empty queue nextSong and prevSong pass playIndex an index
\* of the queue: with shuffle off (currentIndex + 1) mod length and
\* (currentIndex - 1 + length) mod length; with shuffle on and more than
\* one item never currentIndex.  On an empty queue they change nothing.
C24_IndexInsideQueue ==
  [][(fn' \in {"nextSong", "prevSong"})
       => IF Len(state.queue) = 0
          THEN UNCHANGED <<state, pending, audio, store>>
          ELSE /\ arg' \in 0..(Len(state.queue) - 1)
               /\ PlayIndexCall(arg', state.queue[arg' + 1]) \in pending'
               /\ state' = state
               /\ (~state.shuffleMode /\ fn' = "nextSong")
                    => arg' = Mod(state.currentIndex + 1, Len(state.queue))
               /\ (~state.shuffleMode /\ fn' = "prevSong")
                    => arg' = Mod(state.currentIndex - 1 + Len(state.queue),
                                  Len(state.queue))
               /\ (state.shuffleMode /\ Len(state.queue) > 1)
                    => arg' # state.currentIndex]_vars

\* prevSong has wrapped from the first item to the last with shuffle off
C24_Witness ==
  /\ fn = "prevSong"
  /\ ~state.shuffleMode
  /\ state.currentIndex = 0
  /\ Len(state.queue) > 1
  /\ arg = Len(state.queue) - 1

TimeoutError == createApiError("Request timeout", 408)

Terminated == net.phase \in {"returned", "thrown"}

\* the two outcomes of a call and the state of its timer
OutcomeOfCall ==
  /\ net.phase = "returned"
       => /\ net.outcome = net.settled
          /\ net.outcome.kind = "response"
          /\ ~net.aborted
          /\ net.timer = "cleared"
  /\ net.phase = "thrown"
       => /\ net.outcome.kind = "error"
          /\ net.timer \in {"cleared", "fired"}
          /\ net.timer = "fired" <=> net.outcome = TimeoutError
          /\ net.timer = "cleared" <=> net.outcome = NetworkError
  /\ net.aborted <=> net.timer = "fired"
  /\ net.timer = "fired"
       => /\ net.clock >= net.timeout
          /\ net.settled = AbortError
          /\ net.phase \in {"awaiting", "thrown"}
  /\ Terminated => net.timer # "armed"

\* C28: every fetchWithTimeout call ends, in one of two ways: it returns
\* the response that arrived before the timer fired, or it throws; when
\* the timer fires first the request is aborted and the error thrown is
\* the MusicPlayerError 'Request timeout' with status 408.  Either way
\* the timer is no longer running once the call has ended, so that no
\* abort follows.
C28_OneOutcome ==
  /\ []OutcomeOfCall
  /\ (net.phase = "awaiting") ~> Terminated

\* the call has thrown the timeout error
C28_Witness ==
  /\ net.phase = "thrown"
  /\ net.outcome = TimeoutError
  /\ net.outcome.status = 408
  /\ net.aborted

\* the lines parseLrcLyrics finds in the lyrics of the song at 0-based
\* index i of the queue
ParseOfTrack(i) ==
  parseLrcLyrics(Str(LrcOf(state.queue[i + 1].id)), 0).lines

\* C21: whenever state.parsedLyrics is non-empty it is the parse of the
\* lyrics fetched for the most recently requested track: lyrics of an
\* earlier track that arrive after a later playIndex has cleared the
\* display are not shown.
C21_LyricsOfLatestRequest ==
  state.parsedLyrics # <<>>
    => /\ hist.requested >= 0
       /\ state.parsedLyrics = ParseOfTrack(hist.requested)

PlayIndexPending == \E p \in pending : p.op = "playIndex"

\* C22: the last request wins: once every playIndex call has run to its
\* end and the latest of them got its URL, the audio source is the URL of
\* the item requested last and currentIndex is its index.
C22_LastRequestWins ==
  (~PlayIndexPending /\ hist.requested >= 0 /\ hist.resolved)
    => /\ audio.src = state.queue[hist.requested + 1].url
       /\ state.currentIndex = hist.requested

\* C23: a playIndex call on an index of the queue that gets no URL leaves
\* queue, currentIndex, isPlaying, the audio source and the parsed lyrics
\* as they were when it was made (read for a call during which no other
\* call was under way); a call on an index outside the queue changes
\* nothing.
C23_FailedCallChangesNothing ==
  [][/\ (/\ fn' = "ensureUrlFor"
         /\ result' = NullUrl
         /\ arg'.before.alone
         /\ pending = {arg'}
         /\ arg'.n = hist.requests)
        => /\ state'.queue = state.queue
           /\ state'.currentIndex = arg'.before.currentIndex
           /\ state'.isPlaying = arg'.before.isPlaying
           /\ audio'.src = arg'.before.src
           /\ state'.parsedLyrics = arg'.before.parsedLyrics
     /\ (fn' = "playIndex" /\ arg' \notin 0..(Len(state.queue) - 1))
        => UNCHANGED <<state, pending, audio, dom, hist, store>>]_vars

\* C27: after a timeupdate at time t with parsed lyrics rendered, a line
\* carries the active mark only if its index is findActiveLine(
\* parsedLyrics, t) and it is not the final line; so at most one line is
\* marked, also after a seek to a time before the first line.
C27_ActiveMarkFollowsTime ==
  (/\ fn = "timeupdate"
   /\ state.parsedLyrics # <<>>
   /\ Len(dom.lines) = Len(state.parsedLyrics))
    => /\ \A i \in 1..Len(dom.lines) :
            dom.lines[i]
              => /\ i - 1 = findActiveLine([present |-> TRUE,
                                            lines |-> state.parsedLyrics],
                                           arg)
                 /\ i # Len(dom.lines)
       /\ Cardinality({i \in 1..Len(dom.lines) : dom.lines[i]}) <= 1

\* C30: at most one song-detail fetch is issued per queue item, also when
\* calls for the same index overlap; and a playIndex on an item whose url
\* is set uses that url without a fetch.
C30_OneDetailFetch ==
  [][/\ \A i \in 1..Len(hist.fetches) : hist'.fetches[i] <= 1
     /\ (/\ fn' = "playIndex"
         /\ arg' \in 0..(Len(state.queue) - 1)
         /\ hist'.requests = hist.requests + 1
         /\ state.queue[arg' + 1].url # NullUrl)
        => /\ hist'.fetches = hist.fetches
           /\ audio'.src = state.queue[arg' + 1].url
           /\ state'.queue = state.queue]_vars

====
